---- MODULE Spec2Model ----
(***************************************************************************)
(* Admission pipeline of dfadeeff/admission-automation: the LangGraph      *)
(* workflow (classify_documents -> extract_data -> make_decision, with     *)
(* handle_error), the three agents it sequences and the rule retriever     *)
(* used by the decision agent.                                             *)
(*                                                                         *)
(* Python floats are modelled as exact rationals <<numerator, denominator>>*)
(* (denominator > 0, lowest terms).  Model responses (the text returned by *)
(* the language model) are drawn from small catalogues.                    *)
(***************************************************************************)
EXTENDS Integers, Sequences, FiniteSets, TLC

\* ------------------------------------------------------------------ bounds
\* Largest number of files uploaded with one application.
MaxFiles == 2

\* Largest number of non-critical fields in a mapping whose confidence is
\* calculated.
MaxOtherFields == 2

\* Number of processes that share the persisted knowledge index.
MaxProcesses == 2

\* Largest number of times the handbook chunks are added to the persisted
\* collection.
MaxCopies == 2
MaxPages == 3

\* ------------------------------------------------------------- rationals
RECURSIVE Gcd(_, _)
Gcd(a, b) == IF b = 0 THEN a ELSE Gcd(b, a % b)

Abs(x) == IF x < 0 THEN -x ELSE x

\* n/d in lowest terms, d > 0
Rat(n, d) ==
    LET g == Gcd(Abs(n), d)
    IN  IF n = 0 THEN <<0, 1>> ELSE <<n \div g, d \div g>>

RatGt(a, b) == a[1] * b[2] > b[1] * a[2]
RatLt(a, b) == a[1] * b[2] < b[1] * a[2]
RatLe(a, b) == a[1] * b[2] <= b[1] * a[2]
RatAdd(a, b) == Rat(a[1] * b[2] + b[1] * a[2], a[2] * b[2])
RatMul(a, b) == Rat(a[1] * b[1], a[2] * b[2])
RatMin(a, b) == IF RatLt(b, a) THEN b ELSE a

Zero == <<0, 1>>
One == <<1, 1>>
Half == <<1, 2>>

None == "None"

\* ------------------------------------------------------------ sequences
RECURSIVE SelectSeqBy(_, _)
\* [x for x in s if x \in keep]
SelectSeqBy(s, keep) ==
    IF s = <<>> THEN <<>>
    ELSE IF Head(s) \in keep THEN <<Head(s)>> \o SelectSeqBy(Tail(s), keep)
         ELSE SelectSeqBy(Tail(s), keep)

Range(s) == {s[i] : i \in 1..Len(s)}

\* ----------------------------------------------------------- state.py
\* ApplicationState defaults (state.py:42-56)
DefaultStage == "created"

\* ------------------------------------------------- document_classifier.py
\* DocumentClassifierAgent.document_types
document_types ==
    {"transcript", "a_levels", "abitur", "ib", "passport", "cv",
     "work_certificate", "apprenticeship", "other"}

\* a fallback classification confident enough to pass the classification gate
FallbackClassification_confident == [document_type |-> "other", confidence |-> Rat(3, 5)]

\* The fallback classification of _classify_single_document
FallbackClassification == [document_type |-> "other", confidence |-> Rat(1, 10)]

\* What the classification call can come back with for one file:
\*   kind "throw"      messages.create raises (or the response has no content)
\*   kind "malformed"  the text is not JSON, lacks a key, or a value has the
\*                     wrong type (every Exception of the parse block)
\*   kind "object"     a parseable JSON object {document_type, confidence}
ClassificationResponses ==
    { [kind |-> "throw"], [kind |-> "malformed"],
      [kind |-> "object", document_type |-> "transcript", confidence |-> Rat(9, 10)],
      [kind |-> "object", document_type |-> "abitur", confidence |-> Rat(9, 10)],
      [kind |-> "object", document_type |-> "work_certificate", confidence |-> Rat(1, 2)],
      [kind |-> "object", document_type |-> "diploma", confidence |-> Rat(3, 2)] }

\* _classify_single_document, after the model call returned `response`
\* (a "throw" never reaches the parse block)
classify_single_document(file, response) ==
    IF response.kind = "object"
    THEN [file |-> file,
          document_type |-> response.document_type,
          confidence |-> response.confidence]
    ELSE [file |-> file,
          document_type |-> FallbackClassification.document_type,
          confidence |-> FallbackClassification.confidence]

\* ----------------------------------------------------- data_extractor.py
\* A JSON object returned by the model is modelled by its key set and the
\* keys whose value is not null.
Dict(keys, nonnull) == [keys |-> keys, nonnull |-> nonnull]

\* DataExtractionAgent.extraction_prompts: the fields each template asks for
PromptFields(template) ==
    CASE template = "transcript" ->
           {"institution_name", "degree_type", "field_of_study", "graduation_date",
            "final_grade", "gpa", "grading_system", "subjects", "country",
            "language_of_instruction"}
      [] template = "a_levels" ->
           {"exam_board", "examination_session", "subjects", "overall_grade",
            "centre_number", "candidate_number", "country"}
      [] template = "abitur" ->
           {"school_name", "state", "graduation_year", "overall_grade", "subjects",
            "advanced_courses", "basic_courses"}
      [] template = "ib" ->
           {"school_name", "country", "graduation_year", "total_points", "subjects",
            "extended_essay_grade", "tok_grade", "cas_completed"}
      [] template = "work_certificate" ->
           {"company_name", "position_title", "start_date", "end_date",
            "employment_type", "responsibilities", "industry", "supervisor_name",
            "supervisor_contact"}
      [] template = "cv" ->
           {"personal_info", "education", "work_experience", "skills", "languages",
            "certifications"}
      [] OTHER ->
           {"document_type", "key_information", "dates", "institutions"}

extraction_prompt_keys ==
    {"transcript", "a_levels", "abitur", "ib", "work_certificate", "cv", "other"}

\* self.extraction_prompts.get(document_type, self.extraction_prompts["other"])
extraction_template(doc_type) ==
    IF doc_type \in extraction_prompt_keys THEN doc_type ELSE "other"

\* critical_fields of _calculate_extraction_confidence
critical_fields(doc_type) ==
    CASE doc_type = "transcript" -> {"institution_name", "graduation_date", "final_grade"}
      [] doc_type = "a_levels" -> {"exam_board", "subjects"}
      [] doc_type = "abitur" -> {"school_name", "overall_grade", "graduation_year"}
      [] doc_type = "ib" -> {"total_points", "subjects", "graduation_year"}
      [] OTHER -> {}

critical_types == {"transcript", "a_levels", "abitur", "ib"}

\* a confidence that counts the null fields in the base ratio
calculate_extraction_confidence_nulls(extracted_data, doc_type) ==
    LET null_fields == Cardinality(extracted_data.keys \ extracted_data.nonnull)
        total_fields == Cardinality(extracted_data.keys)
    IN  IF extracted_data.keys = {} \/ "error" \in extracted_data.keys THEN Zero
        ELSE LET base_confidence == Rat(null_fields, total_fields)
             IN  IF doc_type \in critical_types
                 THEN LET critical_present ==
                              Cardinality(critical_fields(doc_type) \cap extracted_data.nonnull)
                          critical_ratio ==
                              Rat(critical_present, Cardinality(critical_fields(doc_type)))
                      IN  RatMin(One, RatAdd(RatMul(base_confidence, Half),
                                             RatMul(critical_ratio, Half)))
                 ELSE base_confidence

\* _calculate_extraction_confidence(extracted_data, doc_type)
calculate_extraction_confidence(extracted_data, doc_type) ==
    LET non_null_fields == Cardinality(extracted_data.nonnull)
        total_fields == Cardinality(extracted_data.keys)
    IN  IF extracted_data.keys = {} \/ "error" \in extracted_data.keys THEN Zero
        ELSE LET base_confidence == Rat(non_null_fields, total_fields)
             IN  IF doc_type \in critical_types
                 THEN LET critical_present ==
                              Cardinality(critical_fields(doc_type) \cap extracted_data.nonnull)
                          critical_ratio ==
                              Rat(critical_present, Cardinality(critical_fields(doc_type)))
                      IN  RatMin(One, RatAdd(RatMul(base_confidence, Half),
                                             RatMul(critical_ratio, Half)))
                 ELSE base_confidence

\* The sentinel record's data, {"error": "Failed to parse extracted data"}
SentinelData == Dict({"error"}, {"error"})

\* Objects the extraction call returns in the pipeline runs: every requested
\* field filled, only a few non-critical fields of which one is filled, or (for
\* an Abitur) every field with a null overall grade.
FullObject(doc_type) ==
    Dict(PromptFields(extraction_template(doc_type)),
         PromptFields(extraction_template(doc_type)))

\* every requested field is there, and the overall grade is null: the
\* certificate shows no grade the model could read
UngradedObject(doc_type) ==
    Dict(PromptFields(extraction_template(doc_type)),
         PromptFields(extraction_template(doc_type)) \ {"overall_grade"})

SparseObject(doc_type) ==
    CASE doc_type = "transcript" ->
           Dict({"degree_type", "field_of_study", "gpa", "grading_system", "country"},
                {"country"})
      [] doc_type = "abitur" ->
           Dict({"state", "subjects", "advanced_courses", "basic_courses"}, {"state"})
      [] doc_type = "work_certificate" ->
           Dict({"company_name", "position_title", "industry"}, {"company_name"})
      [] OTHER ->
           Dict({"document_type", "key_information", "dates", "institutions"}, {})

\* What the extraction call can come back with for one classified document:
\*   kind "throw"      messages.create raises
\*   kind "nonjson"    json.loads raises JSONDecodeError
\*   kind "nonobject"  valid JSON that is no object (a list, a string, null)
\*   kind "object"     a JSON object
ExtractionResponses(doc_type) ==
    { [kind |-> "throw"], [kind |-> "nonjson"], [kind |-> "nonobject"],
      [kind |-> "object", data |-> FullObject(doc_type)],
      [kind |-> "object", data |-> SparseObject(doc_type)] }
    \cup (IF doc_type = "abitur"
          THEN {[kind |-> "object", data |-> UngradedObject(doc_type)]}
          ELSE {})

\* an _extract_from_document whose sentinel record carries confidence 0.5
extract_from_document_half(classified_doc, response) ==
    IF response.kind = "object"
    THEN [document_type |-> classified_doc.document_type,
          data |-> response.data,
          confidence |-> calculate_extraction_confidence(response.data,
                                                         classified_doc.document_type),
          source_file |-> classified_doc.file.filename]
    ELSE [document_type |-> classified_doc.document_type,
          data |-> SentinelData,
          confidence |-> Half,
          source_file |-> classified_doc.file.filename]

\* _extract_from_document, after the model call returned `response` of kind
\* "nonjson" or "object" (the other kinds leave the function by an exception)
extract_from_document(classified_doc, response) ==
    IF response.kind = "object"
    THEN [document_type |-> classified_doc.document_type,
          data |-> response.data,
          confidence |-> calculate_extraction_confidence(response.data,
                                                         classified_doc.document_type),
          source_file |-> classified_doc.file.filename]
    ELSE [document_type |-> classified_doc.document_type,
          data |-> SentinelData,
          confidence |-> Zero,
          source_file |-> classified_doc.file.filename]

\* an _extract_from_document that catches every failure itself
extraction_raises_never(response) == FALSE

\* _extract_from_document raises towards DataExtractionAgent.process
extraction_raises(response) == response.kind \in {"throw", "nonobject"}

\* ----------------------------------------------------- admission_agent.py
\* a table that asks every other entity for a transcript
required_docs_default(e) ==
    CASE e = "DE" -> <<"transcript", "abitur">>
      [] e = "UK" -> <<"transcript", "a_levels">>
      [] e = "CA" -> <<"transcript">>
      [] OTHER -> <<"transcript">>

\* AdmissionDecisionAgent.required_docs, and .get(entity, [])
required_docs(e) ==
    CASE e = "DE" -> <<"transcript", "abitur">>
      [] e = "UK" -> <<"transcript", "a_levels">>
      [] e = "CA" -> <<"transcript">>
      [] OTHER -> <<>>

\* a completeness check that reports the whole required list once anything
\* is missing
check_document_completeness_all(e, classified) ==
    LET provided_types == {classified[i].document_type : i \in 1..Len(classified)}
    IN  IF Range(required_docs(e)) \subseteq provided_types THEN <<>> ELSE required_docs(e)

\* a completeness check that counts only documents classified with a
\* confidence above 0.5
check_document_completeness_confident(e, classified) ==
    LET provided_types == {classified[i].document_type :
                              i \in {j \in 1..Len(classified) :
                                        RatGt(classified[j].confidence, Half)}}
    IN  SelectSeqBy(required_docs(e), Range(required_docs(e)) \ provided_types)

\* _check_document_completeness: the required types no classified document has
check_document_completeness(e, classified) ==
    LET provided_types == {classified[i].document_type : i \in 1..Len(classified)}
    IN  SelectSeqBy(required_docs(e), Range(required_docs(e)) \ provided_types)

\* a branch test that needs more than one missing document
has_missing_docs_several(missing_docs) == Len(missing_docs) > 1

\* `if missing_docs:` of process
has_missing_docs(missing_docs) == missing_docs # <<>>

\* The decision of the MISSING_DOCS branch of process
MissingDocsDecision(missing_docs) ==
    [status |-> "MISSING_DOCS",
     confidence |-> One,
     reasoning |-> "Missing required documents",
     applied_rules |-> <<>>,
     missing_documents |-> missing_docs,
     handbook_citations |-> <<>>]

secondary_types == {"a_levels", "abitur", "ib"}

RECURSIVE qualifications_of(_)
\* profile["qualifications"] of _build_applicant_profile
qualifications_of(extractions) ==
    IF extractions = <<>> THEN <<>>
    ELSE LET x == Head(extractions)
             rest == qualifications_of(Tail(extractions))
         IN  IF x.document_type = "transcript"
             THEN <<[type |-> "university_degree", subtype |-> None,
                     data |-> x.data, confidence |-> x.confidence]>> \o rest
             ELSE IF x.document_type \in secondary_types
             THEN <<[type |-> "secondary_education", subtype |-> x.document_type,
                     data |-> x.data, confidence |-> x.confidence]>> \o rest
             ELSE rest

RECURSIVE work_experience_of(_)
\* profile["work_experience"] of _build_applicant_profile: the data alone
work_experience_of(extractions) ==
    IF extractions = <<>> THEN <<>>
    ELSE IF Head(extractions).document_type = "work_certificate"
         THEN <<Head(extractions).data>> \o work_experience_of(Tail(extractions))
         ELSE work_experience_of(Tail(extractions))

RECURSIVE personal_info_of(_)
\* profile["personal_info"]: the data of the last cv record, {} without one
personal_info_of(extractions) ==
    IF extractions = <<>> THEN Dict({}, {})
    ELSE LET last == extractions[Len(extractions)]
         IN  IF last.document_type = "cv" THEN last.data
             ELSE personal_info_of(SubSeq(extractions, 1, Len(extractions) - 1))

\* _build_applicant_profile
build_applicant_profile(program, e, extractions) ==
    [target_program |-> program,
     entity |-> e,
     qualifications |-> qualifications_of(extractions),
     work_experience |-> work_experience_of(extractions),
     personal_info |-> personal_info_of(extractions)]

RECURSIVE qualification_queries_nograde(_)
\* qualification queries that never ask for the minimum grade
qualification_queries_nograde(quals) ==
    IF quals = <<>> THEN <<>>
    ELSE LET qual == Head(quals)
         IN  (IF qual.type = "secondary_education"
              THEN <<[kind |-> "recognition", subtype |-> qual.subtype]>>
              ELSE <<>>) \o qualification_queries_nograde(Tail(quals))

RECURSIVE qualification_queries(_)
\* The qualification-specific queries of _query_admission_rules
qualification_queries(quals) ==
    IF quals = <<>> THEN <<>>
    ELSE LET qual == Head(quals)
         IN  (IF qual.type = "secondary_education"
              THEN <<[kind |-> "recognition", subtype |-> qual.subtype]>> \o
                   (IF "overall_grade" \in qual.data.keys
                    THEN <<[kind |-> "minimum_grade", subtype |-> qual.subtype]>>
                    ELSE <<>>)
              ELSE <<>>) \o qualification_queries(Tail(quals))

\* The list `queries` built by _query_admission_rules
build_queries(profile) ==
    <<[kind |-> "requirements", subtype |-> None]>>
    \o qualification_queries(profile.qualifications)
    \o (IF profile.work_experience # <<>>
        THEN <<[kind |-> "work_experience", subtype |-> None]>>
        ELSE <<>>)

\* AdmissionRulesRetriever.query_admission_rules raises when the vector store
\* was never created: `not self.vector_store.vector_store`
rag_not_initialized(store) == store = None

RECURSIVE collect_results_abort(_, _, _)
\* an aggregation that stops at the first query that raises
collect_results_abort(queries, failed, i) ==
    IF i > Len(queries) \/ i \in failed THEN <<>>
    ELSE <<[question |-> queries[i]]>> \o collect_results_abort(queries, failed, i + 1)

RECURSIVE collect_results(_, _, _)
\* all_rules of _query_admission_rules: the answers of the queries that did
\* not raise, in query order (`failed` holds the positions that raised)
collect_results(queries, failed, i) ==
    IF i > Len(queries) THEN <<>>
    ELSE (IF i \in failed THEN <<>> ELSE <<[question |-> queries[i]]>>)
         \o collect_results(queries, failed, i + 1)

\* What the decision-synthesis call can come back with:
\*   kind "throw"        messages.create raises
\*   kind "nonjson"      json.loads raises JSONDecodeError
\*   kind "nonobject"    valid JSON that is no object   (TypeError)
\*   kind "missing_key"  an object without status/confidence/reasoning (KeyError)
\*   kind "object"       an object with the three required keys
DecisionResponses ==
    { [kind |-> "throw"], [kind |-> "nonjson"], [kind |-> "nonobject"],
      [kind |-> "missing_key"],
      [kind |-> "object", status |-> "APPROVED", confidence |-> Rat(9, 10)],
      [kind |-> "object", status |-> "APPROVED", confidence |-> Rat(1, 2)],
      [kind |-> "object", status |-> "REJECTED", confidence |-> Rat(7, 10)],
      [kind |-> "object", status |-> "MISSING_DOCS", confidence |-> Rat(9, 10)],
      [kind |-> "object", status |-> "MAYBE", confidence |-> Rat(9, 10)] }

\* AdmissionDecision.status: Literal[...] (state.py)
decision_statuses == {"APPROVED", "REJECTED", "REVIEW_REQUIRED", "MISSING_DOCS"}

\* The exception _apply_decision_logic leaves by, None when it returns
decision_logic_exception(response) ==
    CASE response.kind = "throw" -> "APIError"
      [] response.kind = "nonobject" -> "TypeError"
      [] response.kind = "missing_key" -> "KeyError"
      [] response.kind = "object" /\ response.status \notin decision_statuses ->
           "ValidationError"
      [] OTHER -> None

\* a parse fallback that defaults to a rejection
apply_decision_logic_reject(response) ==
    IF response.kind = "object"
    THEN [status |-> response.status,
          confidence |-> response.confidence,
          reasoning |-> "model reasoning",
          applied_rules |-> <<"R1">>,
          missing_documents |-> <<>>,
          handbook_citations |-> <<"page 42">>]
    ELSE [status |-> "REJECTED",
          confidence |-> Zero,
          reasoning |-> "Decision parsing failed - requires manual review",
          applied_rules |-> <<>>,
          missing_documents |-> <<>>,
          handbook_citations |-> <<>>]

\* The AdmissionDecision _apply_decision_logic returns for a response it does
\* not raise on
apply_decision_logic(response) ==
    IF response.kind = "object"
    THEN [status |-> response.status,
          confidence |-> response.confidence,
          reasoning |-> "model reasoning",
          applied_rules |-> <<"R1">>,
          missing_documents |-> <<>>,
          handbook_citations |-> <<"page 42">>]
    ELSE [status |-> "REVIEW_REQUIRED",
          confidence |-> Zero,
          reasoning |-> "Decision parsing failed - requires manual review",
          applied_rules |-> <<>>,
          missing_documents |-> <<>>,
          handbook_citations |-> <<>>]

\* ------------------------------------------------------------ workflow.py
\* a classification gate that lets a confidence of exactly 0.5 pass
should_continue_after_classification_ge(message, classified) ==
    IF message # None THEN [route |-> "error", error_message |-> message]
    ELSE IF classified = <<>>
    THEN [route |-> "error",
          error_message |-> "No documents were successfully classified"]
    ELSE IF \A i \in 1..Len(classified) : RatLt(classified[i].confidence, Rat(1, 2))
    THEN [route |-> "error",
          error_message |-> "No documents classified with sufficient confidence"]
    ELSE [route |-> "continue", error_message |-> message]

\* _should_continue_after_classification: the route and the error_message
\* the state holds afterwards
should_continue_after_classification(message, classified) ==
    IF message # None THEN [route |-> "error", error_message |-> message]
    ELSE IF classified = <<>>
    THEN [route |-> "error",
          error_message |-> "No documents were successfully classified"]
    ELSE IF \A i \in 1..Len(classified) : ~RatGt(classified[i].confidence, Rat(1, 2))
    THEN [route |-> "error",
          error_message |-> "No documents classified with sufficient confidence"]
    ELSE [route |-> "continue", error_message |-> message]

\* an extraction gate that lets a confidence of exactly 0.1 pass
should_continue_after_extraction_ge(message, extractions) ==
    IF message # None THEN [route |-> "error", error_message |-> message]
    ELSE IF extractions = <<>>
    THEN [route |-> "error", error_message |-> "No data was successfully extracted"]
    ELSE IF \A i \in 1..Len(extractions) : RatLt(extractions[i].confidence, Rat(1, 10))
    THEN [route |-> "error",
          error_message |-> "No data extracted with sufficient confidence"]
    ELSE [route |-> "continue", error_message |-> message]

\* _should_continue_after_extraction
should_continue_after_extraction(message, extractions) ==
    IF message # None THEN [route |-> "error", error_message |-> message]
    ELSE IF extractions = <<>>
    THEN [route |-> "error", error_message |-> "No data was successfully extracted"]
    ELSE IF \A i \in 1..Len(extractions) : ~RatGt(extractions[i].confidence, Rat(1, 10))
    THEN [route |-> "error",
          error_message |-> "No data extracted with sufficient confidence"]
    ELSE [route |-> "continue", error_message |-> message]

\* The graph state is one dict: a node changes it and returns it, the edge
\* function after the node reads and changes the same dict, and the next node
\* receives it.
\* ------------------------------------------------------------------ state
VARIABLES
    pc,                    \* position of the run inside process_application
    application_id, applicant_id, target_program, entity, uploaded_files,
    classified_documents, extracted_data, admission_decision,
    current_stage, error_message, agent_logs,
    cursor,                \* items the running stage loop has gone through
    classified_docs,       \* local list of DocumentClassifierAgent.process
    extracted_local,       \* local list extracted_data of DataExtractionAgent.process
    handbook_rules,        \* result of _query_admission_rules, None before
    vector_store,          \* HandbookVectorStore.vector_store of the decision agent
    rule_queries,          \* calls of rag_retriever.query_admission_rules so far
    decision_calls,        \* decision-synthesis calls (messages.create) so far
    model_calls,           \* history: what each JSON-expecting model call returned
    extracted_json,        \* argument extracted_data of _calculate_extraction_confidence
    doc_type,              \* argument doc_type of _calculate_extraction_confidence
    confidence,            \* what _calculate_extraction_confidence returned
    persist_directory,     \* the persisted Chroma collection at ./chroma_db
    handbook_pdf,          \* whether ../data/Leitfaden.pdf can be loaded
    rag_pc,                \* per process: position inside create_or_load_index
    rag_call,              \* per process: the initialize call in progress
    rag_store,             \* per process: HandbookVectorStore.vector_store of rag_system
    rag_ready,             \* per process: create_or_load_index has returned normally
    rag_result,            \* outcome of the last retriever or store operation
    pdf_pages,             \* the text length of each page of the handbook PDF
    loader_pc,             \* position inside HandbookLoader.process_handbook
    documents,             \* what load_pdf returned
    chunks                 \* what chunk_documents returned

inputVars == <<application_id, applicant_id, target_program, entity, uploaded_files>>
outputVars == <<classified_documents, extracted_data, admission_decision>>
metaVars == <<current_stage, error_message, agent_logs>>
localVars == <<cursor, classified_docs, extracted_local>>
ragVars == <<handbook_rules, vector_store, rule_queries, decision_calls>>
histVars == <<model_calls>>
calcVars == <<extracted_json, doc_type, confidence>>
indexVars == <<persist_directory, handbook_pdf, rag_pc, rag_call, rag_store, rag_ready,
              rag_result>>
loaderVars == <<pdf_pages, loader_pc, documents, chunks>>
noLoaderVars == <<pc, inputVars, outputVars, metaVars, localVars, ragVars, histVars, calcVars,
                 indexVars>>
noIndexVars == <<pc, inputVars, outputVars, metaVars, localVars, ragVars, histVars, calcVars,
                loaderVars>>
vars == <<pc, inputVars, outputVars, metaVars, localVars, ragVars, histVars, calcVars,
          indexVars, loaderVars>>

\* admission_decision: Optional[AdmissionDecision] = None
NoDecision == [status |-> None]
NoRules == [queries |-> <<>>, results |-> <<>>, failed |-> {}, computed |-> FALSE]

\* no confidence calculated yet
NoConfidence == <<0, 0>>

\* the processes that run the service against the same ./chroma_db
Processes == 1..MaxProcesses

\* the persisted collection: its condition, and how many times the handbook
\* chunks have been added to it
Disk(status, copies) == [status |-> status, copies |-> copies]

NoResult == [op |-> "none"]

\* no initialize call in progress
NoCall == [force_reload |-> FALSE, found |-> None]

\* no process has touched the knowledge index
NoIndexActivity ==
    /\ rag_pc = [p \in Processes |-> "idle"]
    /\ rag_call = [p \in Processes |-> NoCall]
    /\ rag_store = [p \in Processes |-> None]
    /\ rag_ready = [p \in Processes |-> FALSE]
    /\ rag_result = NoResult

\* process_handbook has not been called
NoLoaderActivity ==
    /\ pdf_pages = <<>>
    /\ loader_pc = "idle"
    /\ documents = <<>>
    /\ chunks = <<>>

\* ApplicationState.add_log (the timestamp is left out)
add_log(logs, agent, action, details) ==
    Append(logs, [agent |-> agent, action |-> action, details |-> details])

Entities == {"DE", "UK", "CA", "XX"}

FileName(i) ==
    CASE i = 1 -> "a.pdf" [] i = 2 -> "b.pdf" [] i = 3 -> "c.pdf" [] OTHER -> "d.pdf"

\* The uploads of one application: up to MaxFiles files, each with its own
\* file id and filename.
Uploads ==
    { [i \in 1..n |-> [file_id |-> i, filename |-> FileName(i)]] : n \in 0..MaxFiles }

Init ==
    /\ pc = "idle"
    /\ application_id = None /\ applicant_id = None /\ target_program = None
    /\ entity = None /\ uploaded_files = <<>>
    /\ classified_documents = <<>> /\ extracted_data = <<>>
    /\ admission_decision = NoDecision
    /\ current_stage = None /\ error_message = None /\ agent_logs = <<>>
    /\ cursor = 0 /\ classified_docs = <<>> /\ extracted_local = <<>>
    /\ handbook_rules = NoRules
    /\ vector_store = None
    /\ rule_queries = 0 /\ decision_calls = 0
    /\ model_calls = <<>>
    /\ extracted_json = Dict({}, {}) /\ doc_type = None /\ confidence = NoConfidence
    /\ persist_directory = Disk("missing", 0) /\ handbook_pdf = "present"
    /\ NoIndexActivity
    /\ NoLoaderActivity

\* AdmissionRulesRetriever.initialize on the decision agent's retriever, before
\* an application is processed: create_or_load_index stores the index, or the
\* handbook cannot be loaded and the store stays None.
initialize ==
    /\ pc = "idle"
    /\ vector_store = None
    /\ vector_store' = "Chroma"
    /\ UNCHANGED <<calcVars, indexVars, loaderVars, pc, inputVars, outputVars, metaVars, localVars,
                   handbook_rules, rule_queries, decision_calls, histVars>>

\* process_admission_application: the initial ApplicationState, handed to
\* process_application, which starts the graph at its entry point
start_application(uploads) ==
    /\ pc = "idle"
    /\ \E e \in Entities, files \in uploads :
         /\ entity' = e
         /\ uploaded_files' = files
    /\ application_id' = "APP-1" /\ applicant_id' = "applicant-1"
    /\ target_program' = "BSc"
    /\ current_stage' = DefaultStage
    /\ pc' = "classify_documents"
    /\ UNCHANGED <<calcVars, indexVars, loaderVars, outputVars, error_message, agent_logs, localVars, ragVars, histVars>>

process_admission_application == start_application(Uploads)

\* submit_application of main.py: every uploaded part becomes a DocumentFile
\* with a fresh file_id and the filename the client sent, and the list goes to
\* process_admission_application
SubmittedNames == {"a.pdf", "b.pdf"}

Submissions ==
    UNION { { [i \in 1..n |-> [file_id |-> i, filename |-> names[i]]] :
                names \in [1..n -> SubmittedNames] } : n \in 0..MaxFiles }

submit_application == start_application(Submissions)

\* ---- classify_documents node: DocumentClassifierAgent.process
classify_begin ==
    /\ pc = "classify_documents"
    /\ current_stage' = "classifying_documents"
    /\ classified_docs' = <<>>
    /\ cursor' = 0
    /\ pc' = "classify_loop"
    /\ UNCHANGED <<calcVars, indexVars, loaderVars, inputVars, outputVars, error_message, agent_logs,
                   extracted_local, ragVars, histVars>>

\* one iteration of `for file in state.uploaded_files`.  _extract_text
\* catches what reading the file raises and returns a message in place of the
\* text, so the model call is made either way; text_failed records which.
classify_with(responses, text_failed) ==
    /\ pc = "classify_loop"
    /\ cursor < Len(uploaded_files)
    /\ LET file == uploaded_files[cursor + 1]
       IN  \E response \in responses :
             /\ model_calls' = Append(model_calls,
                    [site |-> "classification", item |-> cursor + 1,
                     response |-> response, text_failed |-> text_failed])
             /\ IF response.kind = "throw"
                THEN /\ classified_docs' = classified_docs
                     /\ agent_logs' = add_log(agent_logs, "DocumentClassifier",
                                              "classification_error",
                                              [file |-> file.filename, error |-> "APIError"])
                ELSE LET classification == classify_single_document(file, response)
                     IN  /\ classified_docs' = Append(classified_docs, classification)
                         /\ agent_logs' = add_log(agent_logs, "DocumentClassifier",
                                "classify_document",
                                [file |-> file.filename,
                                 classified_as |-> classification.document_type,
                                 confidence |-> classification.confidence])
    /\ cursor' = cursor + 1
    /\ UNCHANGED <<calcVars, indexVars, loaderVars, pc, inputVars, outputVars, current_stage, error_message,
                   extracted_local, ragVars>>

classify_iteration(text_failed) == classify_with(ClassificationResponses, text_failed)

\* the iteration for a file whose text can be read
classify_file == classify_iteration(FALSE)

\* the iteration for a file whose text extraction raises
classify_unreadable_file == classify_iteration(TRUE)

\* Classification responses for files that are hard to read: the model is
\* sure of a transcript, unsure of an Abitur, or returns no JSON
WeakClassificationResponses ==
    { [kind |-> "malformed"],
      [kind |-> "object", document_type |-> "transcript", confidence |-> Rat(9, 10)],
      [kind |-> "object", document_type |-> "abitur", confidence |-> Rat(2, 5)] }

\* the iteration for a file that is hard to read
classify_weak_file == classify_with(WeakClassificationResponses, FALSE)

\* the conditional edge after classify_documents, on the dict the node returned
route_after_classification ==
    LET r == should_continue_after_classification(error_message, classified_documents')
    IN  /\ error_message' = r.error_message
        /\ pc' = IF r.route = "continue" THEN "extract_data" ELSE "handle_error"

\* the node returning after any iteration of the loop
classify_end_early ==
    /\ pc = "classify_loop"
    /\ cursor >= 1
    /\ classified_documents' = classified_docs
    /\ current_stage' = "documents_classified"
    /\ route_after_classification
    /\ UNCHANGED <<calcVars, indexVars, loaderVars, inputVars, extracted_data, admission_decision,
                   agent_logs, localVars, ragVars, histVars>>

\* after the loop; the node copies the agent's result into the graph state and
\* returns, and the graph follows the conditional edge
classify_end ==
    /\ pc = "classify_loop"
    /\ cursor = Len(uploaded_files)
    /\ classified_documents' = classified_docs
    /\ current_stage' = "documents_classified"
    /\ route_after_classification
    /\ UNCHANGED <<calcVars, indexVars, loaderVars, inputVars, extracted_data, admission_decision,
                   agent_logs, localVars, ragVars, histVars>>

\* ---- extract_data node with the classifier's stage name at the start
extract_begin_stale_stage ==
    /\ pc = "extract_data"
    /\ current_stage' = "classifying_documents"
    /\ extracted_local' = <<>>
    /\ cursor' = 0
    /\ pc' = "extract_loop"
    /\ UNCHANGED <<calcVars, indexVars, loaderVars, inputVars, outputVars, error_message, agent_logs,
                   classified_docs, ragVars, histVars>>

\* ---- extract_data node: DataExtractionAgent.process
extract_begin ==
    /\ pc = "extract_data"
    /\ current_stage' = "extracting_data"
    /\ extracted_local' = <<>>
    /\ cursor' = 0
    /\ pc' = "extract_loop"
    /\ UNCHANGED <<calcVars, indexVars, loaderVars, inputVars, outputVars, error_message, agent_logs,
                   classified_docs, ragVars, histVars>>

\* one iteration of `for classified_doc in state.classified_documents`
extract_document ==
    /\ pc = "extract_loop"
    /\ cursor < Len(classified_documents)
    /\ LET classified_doc == classified_documents[cursor + 1]
       IN  \E response \in ExtractionResponses(classified_doc.document_type) :
             /\ model_calls' = Append(model_calls,
                    [site |-> "extraction", item |-> cursor + 1, response |-> response])
             /\ IF extraction_raises(response)
                THEN /\ extracted_local' = extracted_local
                     /\ agent_logs' = add_log(agent_logs, "DataExtractor",
                                              "extraction_error",
                                              [document |-> classified_doc.file.filename,
                                               error |-> response.kind])
                ELSE LET extraction == extract_from_document(classified_doc, response)
                     IN  /\ extracted_local' = Append(extracted_local, extraction)
                         /\ agent_logs' = add_log(agent_logs, "DataExtractor",
                                "extract_data",
                                [document |-> classified_doc.file.filename,
                                 type |-> classified_doc.document_type,
                                 fields_extracted |-> Cardinality(extraction.data.keys),
                                 confidence |-> extraction.confidence])
    /\ cursor' = cursor + 1
    /\ UNCHANGED <<calcVars, indexVars, loaderVars, pc, inputVars, outputVars, current_stage, error_message,
                   classified_docs, ragVars>>

\* the conditional edge after extract_data, on the dict the node returned
route_after_extraction ==
    LET r == should_continue_after_extraction(error_message, extracted_data')
    IN  /\ error_message' = r.error_message
        /\ pc' = IF r.route = "continue" THEN "make_decision" ELSE "handle_error"

\* an extraction node that also drops the classified documents it got no
\* record for
extract_end_prunes ==
    /\ pc = "extract_loop"
    /\ cursor = Len(classified_documents)
    /\ extracted_data' = extracted_local
    /\ classified_documents' =
           SelectSeq(classified_documents,
                     LAMBDA d : \E i \in 1..Len(extracted_local) :
                                   extracted_local[i].source_file = d.file.filename)
    /\ current_stage' = "data_extracted"
    /\ route_after_extraction
    /\ UNCHANGED <<calcVars, indexVars, loaderVars, inputVars, admission_decision,
                   agent_logs, localVars, ragVars, histVars>>

\* after the loop; the node returns and the graph follows the conditional edge
extract_end ==
    /\ pc = "extract_loop"
    /\ cursor = Len(classified_documents)
    /\ extracted_data' = extracted_local
    /\ current_stage' = "data_extracted"
    /\ route_after_extraction
    /\ UNCHANGED <<calcVars, indexVars, loaderVars, inputVars, classified_documents, admission_decision,
                   agent_logs, localVars, ragVars, histVars>>

\* process_application after invoke: a node with an edge to END has returned,
\* the result dict becomes the ApplicationState handed to the caller
return_result == pc' = "returned"

\* ---- make_decision node that starts from a provisional decision
decision_begin_provisional ==
    /\ pc = "make_decision"
    /\ current_stage' = "making_decision"
    /\ admission_decision' = apply_decision_logic([kind |-> "nonjson"])
    /\ pc' = "check_completeness"
    /\ UNCHANGED <<calcVars, indexVars, loaderVars, inputVars, classified_documents, extracted_data,
                   error_message, agent_logs, localVars, ragVars, histVars>>

\* ---- make_decision node: AdmissionDecisionAgent.process
decision_begin ==
    /\ pc = "make_decision"
    /\ current_stage' = "making_decision"
    /\ pc' = "check_completeness"
    /\ UNCHANGED <<calcVars, indexVars, loaderVars, inputVars, outputVars, error_message, agent_logs, localVars,
                   ragVars, histVars>>

\* state.admission_decision = decision; current_stage; add_log
store_decision(decision) ==
    /\ admission_decision' = decision
    /\ current_stage' = "decision_made"
    /\ agent_logs' = add_log(agent_logs, "AdmissionDecision", "make_decision",
                             [status |-> decision.status,
                              confidence |-> decision.confidence,
                              rules_applied |-> Len(decision.applied_rules)])
    /\ UNCHANGED error_message

\* the `except Exception` of process
decision_error(exception) ==
    /\ error_message' = exception
    /\ current_stage' = "error"
    /\ agent_logs' = add_log(agent_logs, "AdmissionDecision", "decision_error",
                             [error |-> exception])
    /\ UNCHANGED admission_decision

\* `if missing_docs:` the MISSING_DOCS branch; the node returns and the graph ends
decide_missing_docs ==
    /\ pc = "check_completeness"
    /\ LET missing_docs == check_document_completeness(entity, classified_documents)
       IN  /\ has_missing_docs(missing_docs)
           /\ store_decision(MissingDocsDecision(missing_docs))
    /\ return_result
    /\ UNCHANGED <<calcVars, indexVars, loaderVars, inputVars, classified_documents, extracted_data, localVars,
                   ragVars, histVars>>

\* `else:` _evaluate_admission up to the return of _query_admission_rules: the
\* profile, the queries, one retriever call per query, each of which may raise
query_admission_rules ==
    /\ pc = "check_completeness"
    /\ ~has_missing_docs(check_document_completeness(entity, classified_documents))
    /\ LET profile == build_applicant_profile(target_program, entity, extracted_data)
           queries == build_queries(profile)
       IN  /\ \E failed \in SUBSET (1..Len(queries)) :
                 /\ rag_not_initialized(vector_store) => failed = 1..Len(queries)
                 /\ handbook_rules' = [queries |-> queries,
                                       results |-> collect_results(queries, failed, 1),
                                       failed |-> failed,
                                       computed |-> TRUE]
           /\ rule_queries' = rule_queries + Len(queries)
    /\ pc' = "decision_logic"
    /\ UNCHANGED <<calcVars, indexVars, loaderVars, inputVars, outputVars, metaVars, localVars, vector_store,
                   decision_calls, histVars>>

\* _apply_decision_logic and the rest of process; the node returns and the
\* graph ends (make_decision -> END)
apply_decision ==
    /\ pc = "decision_logic"
    /\ \E response \in DecisionResponses :
         /\ model_calls' = Append(model_calls,
                [site |-> "decision", item |-> 1, response |-> response])
         /\ IF decision_logic_exception(response) # None
            THEN decision_error(decision_logic_exception(response))
            ELSE store_decision(apply_decision_logic(response))
    /\ decision_calls' = decision_calls + 1
    /\ handbook_rules' = NoRules
    /\ return_result
    /\ UNCHANGED <<calcVars, indexVars, loaderVars, inputVars, classified_documents, extracted_data, localVars,
                   vector_store, rule_queries>>

\* ---- handle_error node: _handle_error_node; handle_error -> END
handle_error ==
    /\ pc = "handle_error"
    /\ current_stage' = "error_handled"
    /\ agent_logs' = add_log(agent_logs, "Workflow", "handle_error",
                             [error |-> error_message])
    /\ return_result
    /\ UNCHANGED <<calcVars, indexVars, loaderVars, inputVars, outputVars, error_message, localVars, ragVars, histVars>>

\* The places between two nodes, where the graph runtime is in control
BetweenNodes == {"classify_documents", "extract_data", "make_decision", "handle_error"}

\* process_application, `except Exception`: invoke raised (every exception of a
\* collaborator is caught inside the nodes, so it is the graph runtime that
\* raised).  The ApplicationState passed in is returned; the nodes worked on
\* copies, so it holds none of their results; the history restarts with it.
workflow_exception ==
    /\ pc \in BetweenNodes
    /\ error_message' = "graph runtime error"
    /\ current_stage' = "workflow_error"
    /\ classified_documents' = <<>>
    /\ extracted_data' = <<>>
    /\ admission_decision' = NoDecision
    /\ agent_logs' = <<>>
    /\ cursor' = 0 /\ classified_docs' = <<>> /\ extracted_local' = <<>>
    /\ model_calls' = <<>>
    /\ pc' = "returned"
    /\ UNCHANGED <<calcVars, indexVars, loaderVars, inputVars, ragVars>>

Next ==
    \/ initialize
    \/ process_admission_application
    \/ classify_begin
    \/ classify_file
    \/ classify_end
    \/ extract_begin
    \/ extract_document
    \/ extract_end
    \/ decision_begin
    \/ decide_missing_docs
    \/ query_admission_rules
    \/ apply_decision
    \/ handle_error
    \/ workflow_exception

Spec == Init /\ [][Next]_vars

\* The run of one application with every step taken in the end: each step is
\* sequential code whose collaborator calls return or raise
SpecLive == Spec /\ WF_vars(Next)

\* The run of one application whose files are hard to read
NextWeak ==
    \/ process_admission_application
    \/ classify_begin
    \/ classify_weak_file
    \/ classify_end
    \/ extract_begin
    \/ extract_document
    \/ extract_end
    \/ decision_begin
    \/ decide_missing_docs
    \/ query_admission_rules
    \/ apply_decision
    \/ handle_error

SpecWeak == Init /\ [][NextWeak]_vars

\* ---- _calculate_extraction_confidence on its own
\* names of fields that are critical for no category
FieldName(i) ==
    CASE i = 1 -> "country" [] i = 2 -> "grading_system" [] i = 3 -> "degree_type"
      [] OTHER -> "field_of_study"

\* the keys a mapping may have: the category's critical fields, some
\* non-critical fields and the key "error"
MappingKeys(type) ==
    critical_fields(type) \cup {FieldName(i) : i \in 1..MaxOtherFields} \cup {"error"}

CalcDocTypes == critical_types \cup {"cv", "other"}

\* a mapping with every value null and a category
InitConfidence ==
    /\ pc = "idle"
    /\ application_id = None /\ applicant_id = None /\ target_program = None
    /\ entity = None /\ uploaded_files = <<>>
    /\ classified_documents = <<>> /\ extracted_data = <<>>
    /\ admission_decision = NoDecision
    /\ current_stage = None /\ error_message = None /\ agent_logs = <<>>
    /\ cursor = 0 /\ classified_docs = <<>> /\ extracted_local = <<>>
    /\ handbook_rules = NoRules
    /\ vector_store = None
    /\ rule_queries = 0 /\ decision_calls = 0
    /\ model_calls = <<>>
    /\ doc_type \in CalcDocTypes
    /\ extracted_json \in {Dict(keys, {}) : keys \in SUBSET MappingKeys(doc_type)}
    /\ confidence = NoConfidence
    /\ persist_directory = Disk("missing", 0) /\ handbook_pdf = "present"
    /\ NoIndexActivity
    /\ NoLoaderActivity

noCalcVars == <<pc, inputVars, outputVars, metaVars, localVars, ragVars, histVars,
                indexVars, loaderVars>>

\* confidence = self._calculate_extraction_confidence(extracted_json, doc_type)
calculate_confidence ==
    /\ confidence = NoConfidence
    /\ confidence' = calculate_extraction_confidence(extracted_json, doc_type)
    /\ UNCHANGED <<noCalcVars, extracted_json, doc_type>>

\* the same mapping with one more value that is not null, and its confidence
fill_field ==
    /\ confidence # NoConfidence
    /\ \E field \in extracted_json.keys \ extracted_json.nonnull :
           extracted_json' = Dict(extracted_json.keys,
                                  extracted_json.nonnull \cup {field})
    /\ confidence' = calculate_extraction_confidence(extracted_json', doc_type)
    /\ UNCHANGED <<noCalcVars, doc_type>>

NextConfidence ==
    \/ calculate_confidence
    \/ fill_field

SpecConfidence == InitConfidence /\ [][NextConfidence]_vars

\* Applications as the upload endpoint hands them over, up to the end of the
\* Extraction Stage
NextSubmission ==
    \/ submit_application
    \/ classify_begin
    \/ classify_file
    \/ classify_end
    \/ extract_begin
    \/ extract_document
    \/ extract_end

SpecSubmission == Init /\ [][NextSubmission]_vars

\* ---- the knowledge index and the rule retriever (rag/) on their own
\* k of self.vector_store.search(question, k=5)
TopK == 5

\* doc.page_content[:200] + "..."
ExcerptLength == 200

Min(a, b) == IF a < b THEN a ELSE b

\* what process_handbook returns for the handbook: the chunks of the pages
\* that have text, each with its page, its position in the page and the
\* length of its text
HandbookChunks ==
    <<[page |-> 1, chunk_index |-> 0, length |-> 1500],
      [page |-> 1, chunk_index |-> 1, length |-> 1480],
      [page |-> 1, chunk_index |-> 2, length |-> 620],
      [page |-> 2, chunk_index |-> 0, length |-> 150],
      [page |-> 4, chunk_index |-> 0, length |-> 1490],
      [page |-> 4, chunk_index |-> 1, length |-> 310]>>

Questions == {"requirements", "recognition"}

\* the order in which the embedding ranks the handbook chunks for a question
Ranking(question) ==
    IF question = "requirements"
    THEN [i \in 1..Len(HandbookChunks) |-> i]
    ELSE [i \in 1..Len(HandbookChunks) |-> Len(HandbookChunks) + 1 - i]

\* Chroma.similarity_search(query, k) on a collection that holds the handbook
\* chunks `copies` times: the k best entries, equal entries next to each other
similarity_search(copies, question, k) ==
    LET ranked == [i \in 1..(Len(HandbookChunks) * copies) |->
                       HandbookChunks[Ranking(question)[((i - 1) \div copies) + 1]]]
    IN  SubSeq(ranked, 1, Min(k, Len(ranked)))

\* a source entry that quotes the whole chunk
source_of_whole(doc) ==
    [page |-> doc.page,
     excerpt |-> [page |-> doc.page, chunk_index |-> doc.chunk_index,
                  taken |-> doc.length, suffix |-> "..."],
     chunk_index |-> doc.chunk_index]

\* the entry of `sources` for one retrieved document
source_of(doc) ==
    [page |-> doc.page,
     excerpt |-> [page |-> doc.page, chunk_index |-> doc.chunk_index,
                  taken |-> Min(ExcerptLength, doc.length), suffix |-> "..."],
     chunk_index |-> doc.chunk_index]

\* What the synthesis call of the retriever can come back with
SynthesisResponses ==
    { [kind |-> "throw"],
      [kind |-> "text", text |-> "see page 1"],
      [kind |-> "text", text |-> "not in the context"] }

\* the outcome of an operation of process p, as the caller sees it; `call` is
\* the initialize call it ends, `ready` whether create_or_load_index had
\* returned in this process when the operation began
Result(op, p, call, outcome, question, docs, answer, sources, llm_calls) ==
    [op |-> op, call |-> call, ready |-> rag_ready[p],
     outcome |-> outcome, question |-> question, docs |-> docs, answer |-> answer,
     sources |-> sources, llm_calls |-> llm_calls]

Failure(op, p, outcome, question, llm_calls) ==
    Result(op, p, NoCall, outcome, question, <<>>, None, <<>>, llm_calls)

\* initialize leaves with an exception or returns
initialize_ends(p, call, outcome) ==
    /\ rag_pc' = [rag_pc EXCEPT ![p] = "idle"]
    /\ rag_call' = [rag_call EXCEPT ![p] = NoCall]
    /\ rag_result' = Result("initialize", p, call, outcome, None, <<>>, None, <<>>, 0)

\* the rebuild branches of create_or_load_index up to Chroma.from_documents:
\* process_handbook raises without the PDF
rebuild(p, call) ==
    IF handbook_pdf = "absent"
    THEN initialize_ends(p, call, "FileNotFoundError")
    ELSE /\ rag_pc' = [rag_pc EXCEPT ![p] = "from_documents"]
         /\ rag_call' = [rag_call EXCEPT ![p] = call]
         /\ rag_result' = rag_result

\* AdmissionRulesRetriever.initialize(force_reload) and create_or_load_index up
\* to the probe query or the rebuild
rag_initialize(p) ==
    /\ rag_pc[p] = "idle"
    /\ \E force_reload \in BOOLEAN :
         LET call == [force_reload |-> force_reload, found |-> persist_directory.status]
         IN  IF force_reload \/ persist_directory.status = "missing"
             THEN /\ rebuild(p, call)
                  /\ UNCHANGED rag_store
             ELSE \* Chroma(persist_directory=...) on the existing directory
                  \/ /\ rag_store' = [rag_store EXCEPT ![p] = "Chroma"]
                     /\ rag_pc' = [rag_pc EXCEPT ![p] = "probe"]
                     /\ rag_call' = [rag_call EXCEPT ![p] = call]
                     /\ UNCHANGED rag_result
                  \/ /\ persist_directory.status = "corrupt"
                     /\ rebuild(p, call)
                     /\ UNCHANGED rag_store
    /\ UNCHANGED <<noIndexVars, persist_directory, handbook_pdf, rag_ready>>

\* test_result = self.vector_store.similarity_search("test", k=1); the result
\* is not looked at.  A collection without entries is "empty" where the
\* chromadb build answers [] for it and "corrupt" where the build raises.
probe(p) ==
    /\ rag_pc[p] = "probe"
    /\ \/ /\ persist_directory.status \in {"ok", "empty"}
          /\ initialize_ends(p, rag_call[p], "loaded")
          /\ rag_ready' = [rag_ready EXCEPT ![p] = TRUE]
       \/ /\ persist_directory.status \in {"corrupt", "missing"}
          /\ rebuild(p, rag_call[p])
          /\ UNCHANGED rag_ready
    /\ UNCHANGED <<noIndexVars, persist_directory, handbook_pdf, rag_store>>

\* Chroma.from_documents(documents, embedding, persist_directory) starts to
\* add the chunks to the collection of the directory
from_documents(p) ==
    /\ rag_pc[p] = "from_documents"
    /\ persist_directory.copies < MaxCopies
    /\ \/ /\ rag_pc' = [rag_pc EXCEPT ![p] = "writing"]
          /\ UNCHANGED <<rag_call, rag_result>>
       \/ /\ persist_directory.status = "corrupt"
          /\ initialize_ends(p, rag_call[p], "ChromaError")
    /\ UNCHANGED <<noIndexVars, persist_directory, handbook_pdf, rag_store, rag_ready>>

\* the processes in the middle of writing the collection
Writers == {p \in Processes : rag_pc[p] = "writing"}

\* from_documents returns, self.vector_store is assigned, persist() is called
\* and create_or_load_index returns.  The chunks are added to what the
\* collection holds; with another writer at work the outcome is not defined.
persist(p) ==
    /\ rag_pc[p] = "writing"
    /\ LET added == Disk("ok", IF persist_directory.status = "ok"
                               THEN persist_directory.copies + 1 ELSE 1)
       IN  \/ persist_directory' = added
           \/ /\ Writers # {p}
              /\ persist_directory' = Disk("corrupt", 0)
    /\ rag_store' = [rag_store EXCEPT ![p] = "Chroma"]
    /\ initialize_ends(p, rag_call[p], "built")
    /\ rag_ready' = [rag_ready EXCEPT ![p] = TRUE]
    /\ UNCHANGED <<noIndexVars, handbook_pdf>>

\* HandbookVectorStore.search(query, k) called through the retriever of p
search(p) ==
    /\ rag_pc[p] = "idle"
    /\ \E question \in Questions :
         IF rag_store[p] = None
         THEN rag_result' = Failure("search", p, "not initialized", question, 0)
         ELSE \/ /\ persist_directory.status \in {"ok", "empty"}
                 /\ rag_result' =
                        Result("search", p, NoCall, "found", question,
                               similarity_search(persist_directory.copies, question, TopK),
                               None, <<>>, 0)
              \/ /\ persist_directory.status \in {"corrupt", "missing"}
                 /\ rag_result' = Failure("search", p, "ChromaError", question, 0)
    /\ UNCHANGED <<noIndexVars, persist_directory, handbook_pdf, rag_pc, rag_call,
                   rag_store, rag_ready>>

\* AdmissionRulesRetriever.query_admission_rules(question)
rag_query_admission_rules(p) ==
    /\ rag_pc[p] = "idle"
    /\ \E question \in Questions :
         IF rag_not_initialized(rag_store[p])
         THEN rag_result' = Failure("query", p, "not initialized", question, 0)
         ELSE \/ /\ persist_directory.status \in {"ok", "empty"}
                 /\ LET docs == similarity_search(persist_directory.copies, question, TopK)
                    IN  \E response \in SynthesisResponses :
                          rag_result' =
                              IF response.kind = "throw"
                              THEN Failure("query", p, "APIError", question, 1)
                              ELSE Result("query", p, NoCall, "answered", question, docs,
                                          response.text,
                                          [i \in 1..Len(docs) |-> source_of(docs[i])], 1)
              \/ /\ persist_directory.status \in {"corrupt", "missing"}
                 /\ rag_result' = Failure("query", p, "ChromaError", question, 0)
    /\ UNCHANGED <<noIndexVars, persist_directory, handbook_pdf, rag_pc, rag_call,
                   rag_store, rag_ready>>

\* The service processes start with the directory in any condition
InitIndex ==
    /\ pc = "idle"
    /\ application_id = None /\ applicant_id = None /\ target_program = None
    /\ entity = None /\ uploaded_files = <<>>
    /\ classified_documents = <<>> /\ extracted_data = <<>>
    /\ admission_decision = NoDecision
    /\ current_stage = None /\ error_message = None /\ agent_logs = <<>>
    /\ cursor = 0 /\ classified_docs = <<>> /\ extracted_local = <<>>
    /\ handbook_rules = NoRules
    /\ vector_store = None
    /\ rule_queries = 0 /\ decision_calls = 0
    /\ model_calls = <<>>
    /\ extracted_json = Dict({}, {}) /\ doc_type = None /\ confidence = NoConfidence
    /\ persist_directory \in {Disk("missing", 0), Disk("empty", 0), Disk("corrupt", 0),
                              Disk("ok", 1)}
    /\ handbook_pdf \in {"present", "absent"}
    /\ NoIndexActivity
    /\ NoLoaderActivity

NextIndex ==
    \E p \in Processes :
        \/ rag_initialize(p)
        \/ probe(p)
        \/ from_documents(p)
        \/ persist(p)
        \/ search(p)
        \/ rag_query_admission_rules(p)

SpecIndex == InitIndex /\ [][NextIndex]_vars

\* One service process alone with its retriever
NextRetriever ==
    \/ rag_initialize(1)
    \/ probe(1)
    \/ from_documents(1)
    \/ persist(1)
    \/ search(1)
    \/ rag_query_admission_rules(1)

SpecRetriever == InitIndex /\ [][NextRetriever]_vars

\* ---- HandbookLoader (rag/handbook_loader.py) on its own
\* RecursiveCharacterTextSplitter(chunk_size=1500, chunk_overlap=200, ...)
ChunkSize == 1500
ChunkOverlap == 200

HandbookPath == "../data/Leitfaden.pdf"

\* the text lengths a page of the PDF can have; a page without text has 0
PageLengths == {0, 150, 1500, 3200}

Handbooks == UNION { [1..n -> PageLengths] : n \in 0..MaxPages }

\* load_pdf: one document per page that has text, with the page number counted
\* over all pages
load_pdf(pages) ==
    LET all == [i \in 1..Len(pages) |->
                   [length |-> pages[i], source |-> HandbookPath, page |-> i,
                    total_pages |-> Len(pages)]]
    IN  SelectSeq(all, LAMBDA doc : doc.length > 0)

\* text_splitter.split_text on a text of the given length, by the lengths of
\* the pieces: pieces of chunk_size that overlap by chunk_overlap, the last one
\* holding the rest (the text is taken to be divisible at every character)
split_text(length) ==
    IF length <= ChunkSize THEN <<length>>
    ELSE LET step == ChunkSize - ChunkOverlap
             n == 1 + ((length - ChunkSize + step - 1) \div step)
         IN  [i \in 1..n |-> IF i < n THEN ChunkSize ELSE length - (n - 1) * step]

\* the chunks of one document, numbered from 1
chunks_of_numbered_from_one(doc) ==
    LET split_docs == split_text(doc.length)
    IN  [i \in 1..Len(split_docs) |->
            [length |-> split_docs[i], source |-> doc.source, page |-> doc.page,
             total_pages |-> doc.total_pages,
             chunk_index |-> i, chunk_total |-> Len(split_docs)]]

\* the inner loop of chunk_documents: the chunks of one document with the
\* document's metadata, chunk_index and chunk_total
chunks_of(doc) ==
    LET split_docs == split_text(doc.length)
    IN  [i \in 1..Len(split_docs) |->
            [length |-> split_docs[i], source |-> doc.source, page |-> doc.page,
             total_pages |-> doc.total_pages,
             chunk_index |-> i - 1, chunk_total |-> Len(split_docs)]]

RECURSIVE chunk_documents(_)
\* chunk_documents: the chunks of every document, in document order
chunk_documents(docs) ==
    IF docs = <<>> THEN <<>>
    ELSE chunks_of(Head(docs)) \o chunk_documents(Tail(docs))

\* process_handbook: documents = self.load_pdf()
loader_load_pdf ==
    /\ loader_pc = "idle"
    /\ documents' = load_pdf(pdf_pages)
    /\ loader_pc' = "loaded"
    /\ UNCHANGED <<noLoaderVars, pdf_pages, chunks>>

\* process_handbook: chunks = self.chunk_documents(documents); return chunks
loader_chunk_documents ==
    /\ loader_pc = "loaded"
    /\ chunks' = chunk_documents(documents)
    /\ loader_pc' = "returned"
    /\ UNCHANGED <<noLoaderVars, pdf_pages, documents>>

\* A loader in front of any handbook
InitLoader ==
    /\ pc = "idle"
    /\ application_id = None /\ applicant_id = None /\ target_program = None
    /\ entity = None /\ uploaded_files = <<>>
    /\ classified_documents = <<>> /\ extracted_data = <<>>
    /\ admission_decision = NoDecision
    /\ current_stage = None /\ error_message = None /\ agent_logs = <<>>
    /\ cursor = 0 /\ classified_docs = <<>> /\ extracted_local = <<>>
    /\ handbook_rules = NoRules
    /\ vector_store = None
    /\ rule_queries = 0 /\ decision_calls = 0
    /\ model_calls = <<>>
    /\ extracted_json = Dict({}, {}) /\ doc_type = None /\ confidence = NoConfidence
    /\ persist_directory = Disk("missing", 0)
    /\ handbook_pdf = "present"
    /\ NoIndexActivity
    /\ pdf_pages \in Handbooks
    /\ loader_pc = "idle"
    /\ documents = <<>>
    /\ chunks = <<>>

NextLoader ==
    \/ loader_load_pdf
    \/ loader_chunk_documents

SpecLoader == InitLoader /\ [][NextLoader]_vars

\* The Classification Stage alone, over readable and unreadable files
NextClassification ==
    \/ process_admission_application
    \/ classify_begin
    \/ classify_file
    \/ classify_unreadable_file
    \/ classify_end

SpecClassification == Init /\ [][NextClassification]_vars

\* ================================================================ claims
Returned == pc = "returned"

TerminalStages == {"decision_made", "error_handled", "workflow_error"}

ProvidedTypes == {classified_documents[i].document_type : i \in 1..Len(classified_documents)}

\* the Decision Stage (AdmissionDecisionAgent.process) has run to its end
DecisionStageDone == current_stage \in {"decision_made", "error"}

\* the responses of the model calls of one site, in call order
CallsAt(site) == SelectSeq(model_calls, LAMBDA c : c.site = site)

\* C1: when process_application returns, current_stage is decision_made,
\* error_handled or workflow_error; with decision_made a decision is present,
\* with error_handled or workflow_error an error message is set.
C1_TerminalStageAtReturn ==
    Returned =>
        /\ current_stage \in TerminalStages
        /\ current_stage = "decision_made" => admission_decision # NoDecision
        /\ current_stage \in {"error_handled", "workflow_error"} => error_message # None

\* C2: the stored decision is never APPROVED or REJECTED with a confidence
\* below 0.8.
C2_ConfidenceFloor ==
    admission_decision.status \in {"APPROVED", "REJECTED"} =>
        ~RatLt(admission_decision.confidence, Rat(4, 5))

\* C3: whenever the Decision Stage has run for an entity with a required
\* category that no classified document has, it stored the decision
\* MISSING_DOCS with confidence 1.0 whose missing_documents are exactly the
\* required categories that are absent, each once; entity DE with a transcript
\* alone gives [abitur].
C3_MissingDocs ==
    LET required == Range(required_docs(entity))
        absent == required \ ProvidedTypes
    IN  (DecisionStageDone /\ absent # {}) =>
            /\ current_stage = "decision_made"
            /\ admission_decision.status = "MISSING_DOCS"
            /\ admission_decision.confidence = One
            /\ Range(admission_decision.missing_documents) = absent
            /\ Len(admission_decision.missing_documents) = Cardinality(absent)
            /\ (entity = "DE" /\ ProvidedTypes = {"transcript"}) =>
                   admission_decision.missing_documents = <<"abitur">>

C3_Witness ==
    /\ Returned
    /\ entity = "DE"
    /\ ProvidedTypes = {"transcript"}
    /\ admission_decision.status = "MISSING_DOCS"
    /\ admission_decision.missing_documents = <<"abitur">>

\* C4 as stated: whenever the stored decision is MISSING_DOCS, the Decision
\* Stage has made no Rule Retriever call and no decision-synthesis call.
C4_NoCallsWheneverMissingDocs ==
    admission_decision.status = "MISSING_DOCS" =>
        rule_queries = 0 /\ decision_calls = 0

\* C4 amended: whenever a required category is absent from the classified
\* documents (the MISSING_DOCS short-circuit branch), the Decision Stage makes
\* no Rule Retriever call and no decision-synthesis call.
C4_NoCallsInMissingDocsBranch ==
    (Range(required_docs(entity)) \ ProvidedTypes) # {} =>
        /\ rule_queries = 0
        /\ decision_calls = 0
        /\ handbook_rules = NoRules
        /\ CallsAt("decision") = <<>>

C4_Witness ==
    /\ Returned
    /\ vector_store # None
    /\ (Range(required_docs(entity)) \ ProvidedTypes) # {}
    /\ admission_decision.status = "MISSING_DOCS"
    /\ rule_queries = 0 /\ decision_calls = 0

SomeConfidentClassification ==
    \E i \in 1..Len(classified_documents) :
        RatGt(classified_documents[i].confidence, Rat(1, 2))

\* the classification gate has just routed the run
RoutedAfterClassification ==
    pc \in {"extract_data", "handle_error"} /\ current_stage = "documents_classified"

\* the run went to the error path because of the classification gate
FailedClassificationGate ==
    /\ ~SomeConfidentClassification
    /\ \/ pc = "handle_error" /\ current_stage = "documents_classified"
       \/ current_stage = "error_handled"

SomeConfidentExtraction ==
    \E i \in 1..Len(extracted_data) : RatGt(extracted_data[i].confidence, Rat(1, 10))

RoutedAfterExtraction ==
    pc \in {"make_decision", "handle_error"} /\ current_stage = "data_extracted"

\* the Decision Stage has started, or left a trace
DecisionStageRan ==
    \/ current_stage \in {"making_decision", "decision_made", "error"}
    \/ admission_decision # NoDecision
    \/ rule_queries > 0 \/ decision_calls > 0
    \/ \E i \in 1..Len(agent_logs) : agent_logs[i].agent = "AdmissionDecision"

C7_ErrorsReachHandleError ==
    (Returned /\ error_message # None /\ current_stage # "workflow_error") =>
        /\ current_stage = "error_handled"
        /\ agent_logs # <<>>
        /\ agent_logs[Len(agent_logs)].action = "handle_error"
        /\ admission_decision = NoDecision

\* the rule questions were issued against a retriever that was never initialized
IndexMissingAtQuery == rag_not_initialized(vector_store) /\ rule_queries > 0

DecisionCallThrew ==
    \E i \in 1..Len(model_calls) :
        model_calls[i].site = "decision" /\ model_calls[i].response.kind = "throw"

\* C8: a run whose Decision Stage met an external-dependency failure (the
\* index is not initialized when the rule questions are issued, or the
\* decision-synthesis call throws) ends on the error path: an error message
\* and no decision.
C8_DependencyFailureIsError ==
    (Returned /\ current_stage # "workflow_error"
       /\ (IndexMissingAtQuery \/ DecisionCallThrew)) =>
        /\ admission_decision = NoDecision
        /\ error_message # None
        /\ current_stage \in {"error", "error_handled"}

FallbackDecision ==
    [status |-> "REVIEW_REQUIRED",
     confidence |-> Zero,
     reasoning |-> "Decision parsing failed - requires manual review",
     applied_rules |-> <<>>,
     missing_documents |-> <<>>,
     handbook_citations |-> <<>>]

DecisionResponseWas(kinds) ==
    \E i \in 1..Len(model_calls) :
        model_calls[i].site = "decision" /\ model_calls[i].response.kind \in kinds

\* C9: when the decision-synthesis response is not parseable JSON, the stored
\* decision is the fallback (REVIEW_REQUIRED, confidence 0.0, the parsing
\* failure reasoning, no rules, no citations) and the run ends in
\* decision_made.
C9_FallbackOnNonJson ==
    DecisionResponseWas({"nonjson"}) =>
        /\ admission_decision = FallbackDecision
        /\ current_stage = "decision_made"
        /\ Returned

C9_Witness ==
    /\ Returned
    /\ DecisionResponseWas({"nonjson"})
    /\ admission_decision.status = "REVIEW_REQUIRED"
    /\ admission_decision.confidence = Zero

\* a response of the decision-synthesis call that is not the documented object
MalformedDecisionResponse(r) ==
    \/ r.kind \in {"nonjson", "nonobject", "missing_key"}
    \/ r.kind = "object" /\ r.status \notin decision_statuses

\* C10: at each JSON-expecting call site a malformed response becomes the
\* site's fallback value: the file is classified other/0.1, the document gets
\* the sentinel record with confidence 0, the decision is REVIEW_REQUIRED/0.0
\* in stage decision_made; no document is dropped, no error stage is entered.
C10_MalformedBecomesFallback ==
    \A c \in 1..Len(model_calls) :
        LET call == model_calls[c]
        IN  /\ (call.site = "classification" /\ call.response.kind = "malformed") =>
                \E d \in 1..Len(classified_docs) :
                    /\ classified_docs[d].file = uploaded_files[call.item]
                    /\ classified_docs[d].document_type = "other"
                    /\ classified_docs[d].confidence = Rat(1, 10)
            /\ (call.site = "extraction" /\ call.response.kind \in {"nonjson", "nonobject"}) =>
                \E x \in 1..Len(extracted_local) :
                    /\ extracted_local[x].source_file =
                           classified_documents[call.item].file.filename
                    /\ extracted_local[x].data = SentinelData
                    /\ extracted_local[x].confidence = Zero
            /\ (call.site = "decision" /\ MalformedDecisionResponse(call.response)) =>
                /\ admission_decision.status = "REVIEW_REQUIRED"
                /\ admission_decision.confidence = Zero
                /\ current_stage = "decision_made"

\* C11: every change of current_stage made during processing comes with
\* exactly one entry appended to the audit log, on the failure path too.
C11_StageChangeLogsOnce ==
    [][(current_stage # None /\ current_stage' # current_stage) =>
           /\ Len(agent_logs') = Len(agent_logs) + 1
           /\ SubSeq(agent_logs', 1, Len(agent_logs)) = agent_logs]_vars

\* C12: the audit log is append-only: every step leaves the log as it was or
\* extends it, so the log of the returned record holds, in order, every entry
\* the stages appended.
C12_LogAppendOnly ==
    [][/\ Len(agent_logs') >= Len(agent_logs)
       /\ SubSeq(agent_logs', 1, Len(agent_logs)) = agent_logs]_vars

\* the success path of current_stage
StageOrder ==
    <<"created", "classifying_documents", "documents_classified", "extracting_data",
      "data_extracted", "making_decision", "decision_made">>

StageRank(stage) == CHOOSE i \in 1..Len(StageOrder) : StageOrder[i] = stage

ErrorStages == {"error", "error_handled", "workflow_error"}

\* C13: current_stage never regresses: every change of it is a move to the
\* next stage of the success path or a move into an error state, and neither
\* decision_made nor an error state is ever left.
C13_StageNeverRegresses ==
    [][(current_stage # None /\ current_stage' # current_stage) =>
           /\ current_stage \notin ErrorStages \cup {"decision_made"}
           /\ \/ current_stage' \in ErrorStages
              \/ /\ current_stage' \in Range(StageOrder)
                 /\ StageRank(current_stage') = StageRank(current_stage) + 1]_vars

C13_Witness ==
    /\ Returned
    /\ current_stage = "decision_made"
    /\ admission_decision.status = "APPROVED"
    /\ extracted_data # <<>>

\* the Extraction Stage has run to its end in this run
ExtractionStageDone ==
    \/ current_stage \in {"data_extracted", "making_decision", "decision_made", "error"}
    \/ current_stage = "error_handled" /\ SomeConfidentClassification

\* the extraction calls whose document came out of _extract_from_document
\* with a record
ExtractionsReturned ==
    SelectSeq(CallsAt("extraction"), LAMBDA c : c.response.kind \in {"nonjson", "object"})

\* C14: in the Extraction Stage a document whose extraction raises does not
\* stop the stage: each classified document is tried exactly once, in order,
\* the final extracted set holds exactly the documents whose extraction
\* returned, in order, and the raising documents are absent from it.
C14_SiblingsSurviveExtractionError ==
    ExtractionStageDone =>
        LET calls == CallsAt("extraction")
            returned == ExtractionsReturned
        IN  /\ Len(calls) = Len(classified_documents)
            /\ \A i \in 1..Len(calls) : calls[i].item = i
            /\ Len(extracted_data) = Len(returned)
            /\ \A k \in 1..Len(returned) :
                   /\ extracted_data[k].source_file =
                          classified_documents[returned[k].item].file.filename
                   /\ extracted_data[k].document_type =
                          classified_documents[returned[k].item].document_type

C14_Witness ==
    /\ Returned
    /\ ExtractionStageDone
    /\ Len(classified_documents) = 2
    /\ Len(extracted_data) = 1
    /\ \E i \in 1..Len(model_calls) :
           /\ model_calls[i].site = "extraction"
           /\ model_calls[i].item = 1
           /\ model_calls[i].response.kind = "throw"
    /\ extracted_data[1].source_file = classified_documents[2].file.filename
    /\ extracted_data[1].data # SentinelData

\* the Classification Stage has run to its end in this run
ClassificationStageDone ==
    current_stage \notin {None, DefaultStage, "classifying_documents", "workflow_error"}

\* file i is in the classified set
Classified(i) ==
    \E d \in 1..Len(classified_documents) : classified_documents[d].file = uploaded_files[i]

\* the audit log holds a classification_error entry for file i
ClassificationErrorLogged(i) ==
    \E l \in 1..Len(agent_logs) :
        /\ agent_logs[l].action = "classification_error"
        /\ agent_logs[l].details.file = uploaded_files[i].filename
        /\ agent_logs[l].details.error # None

\* C15: in the Classification Stage every file is tried once; a file whose
\* text extraction raised or whose model call raised is logged with its
\* filename and the error and is omitted from the classified set; every other
\* file is in the classified set.
C15_FailedFilesOmitted ==
    ClassificationStageDone =>
        LET calls == CallsAt("classification")
        IN  /\ Len(calls) = Len(uploaded_files)
            /\ \A i \in 1..Len(calls) :
                   /\ calls[i].item = i
                   /\ IF calls[i].text_failed \/ calls[i].response.kind = "throw"
                      THEN ~Classified(i) /\ ClassificationErrorLogged(i)
                      ELSE Classified(i)

MalformedClassification(c) ==
    c.site = "classification" /\ c.response.kind = "malformed"

\* C16: a file whose classification response is malformed is still in the
\* classified set, as category "other" with confidence 0.1, and no error is
\* raised or logged for it; a run whose classified files all come from
\* malformed responses does not get past the classification gate.
C16_MalformedClassifiedAsOther ==
    ClassificationStageDone =>
        /\ \A c \in 1..Len(model_calls) :
               MalformedClassification(model_calls[c]) =>
                   /\ \E d \in 1..Len(classified_documents) :
                          /\ classified_documents[d].file = uploaded_files[model_calls[c].item]
                          /\ classified_documents[d].document_type = "other"
                          /\ classified_documents[d].confidence = Rat(1, 10)
                   /\ ~ClassificationErrorLogged(model_calls[c].item)
        /\ (\A c \in 1..Len(model_calls) :
               model_calls[c].site = "classification" =>
                   model_calls[c].response.kind \in {"malformed", "throw"}) =>
               /\ pc # "extract_data"
               /\ current_stage \in {"documents_classified", "error_handled"}

C16_Witness ==
    /\ Returned
    /\ current_stage = "error_handled"
    /\ error_message = "No documents classified with sufficient confidence"
    /\ classified_documents # <<>>
    /\ \A c \in 1..Len(model_calls) : MalformedClassification(model_calls[c])
    /\ \A d \in 1..Len(classified_documents) :
           /\ classified_documents[d].document_type = "other"
           /\ classified_documents[d].confidence = Rat(1, 10)

UnparseableExtraction(c) ==
    c.site = "extraction" /\ c.response.kind = "nonjson"

AllSentinels ==
    /\ extracted_data # <<>>
    /\ \A x \in 1..Len(extracted_data) : extracted_data[x].data = SentinelData

\* C17: a document whose extraction response cannot be parsed gets a sentinel
\* error record with confidence 0 in the extracted set; an application whose
\* extracted records are all sentinels fails the extraction gate and never
\* reaches the Decision Stage.
C17_SentinelOnParseFailure ==
    ExtractionStageDone =>
        /\ \A c \in 1..Len(model_calls) :
               UnparseableExtraction(model_calls[c]) =>
                   \E x \in 1..Len(extracted_data) :
                       /\ extracted_data[x].source_file =
                              classified_documents[model_calls[c].item].file.filename
                       /\ extracted_data[x].document_type =
                              classified_documents[model_calls[c].item].document_type
                       /\ extracted_data[x].data = SentinelData
                       /\ extracted_data[x].confidence = Zero
        /\ AllSentinels =>
               /\ pc # "make_decision"
               /\ ~DecisionStageRan
               /\ current_stage \in {"data_extracted", "error_handled"}
               /\ current_stage = "error_handled" =>
                      error_message = "No data extracted with sufficient confidence"

C17_Witness ==
    /\ Returned
    /\ current_stage = "error_handled"
    /\ AllSentinels
    /\ \E c \in 1..Len(model_calls) : UnparseableExtraction(model_calls[c])
    /\ \A x \in 1..Len(extracted_data) : extracted_data[x].confidence = Zero
    /\ error_message = "No data extracted with sufficient confidence"

\* the reference formula for the confidence of a mapping of a category
ReferenceConfidence(mapping, type) ==
    LET base == IF mapping.keys = {} THEN Zero
                ELSE Rat(Cardinality(mapping.nonnull), Cardinality(mapping.keys))
        critical == critical_fields(type)
    IN  IF type \in {"transcript", "a_levels", "abitur", "ib"}
        THEN RatMin(One, RatAdd(RatMul(base, Half),
                                RatMul(Rat(Cardinality(critical \cap mapping.nonnull),
                                           Cardinality(critical)), Half)))
        ELSE base

\* C18: for every field mapping the calculated extraction confidence equals
\* the reference formula: base for a category without critical fields,
\* min(1.0, base*0.5 + critical_ratio*0.5) for one with critical fields.
C18_ConfidenceEqualsReference ==
    confidence # NoConfidence =>
        confidence = ReferenceConfidence(extracted_json, doc_type)

\* C19: the extraction confidence is monotonically non-decreasing in the
\* number of non-null fields: changing one field of a mapping from null to
\* non-null, all else equal, never lowers the calculated confidence.
C19_ConfidenceMonotone ==
    [][(confidence # NoConfidence /\ confidence' # NoConfidence) =>
           RatLe(confidence, confidence')]_vars

C19_Witness ==
    /\ confidence # NoConfidence
    /\ doc_type = "transcript"
    /\ "error" \notin extracted_json.keys
    /\ Cardinality(extracted_json.nonnull) >= 2
    /\ extracted_json.nonnull # extracted_json.keys
    /\ RatGt(confidence, Zero) /\ RatLt(confidence, One)

\* C20: boundary values of the extraction confidence, for every category: a
\* mapping with no field filled has confidence exactly 0.0, a mapping with all
\* its fields filled, the category's critical fields among them, has
\* confidence exactly 1.0, and every calculated confidence lies in [0, 1].
C20_ConfidenceBoundaries ==
    confidence # NoConfidence =>
        /\ extracted_json.nonnull = {} => confidence = Zero
        /\ (/\ extracted_json.keys # {}
            /\ extracted_json.nonnull = extracted_json.keys
            /\ critical_fields(doc_type) \subseteq extracted_json.nonnull) =>
               confidence = One
        /\ RatLe(Zero, confidence) /\ RatLe(confidence, One)

\* the positions of the rule questions whose retriever call returned
Succeeding ==
    SelectSeq([i \in 1..Len(handbook_rules.queries) |-> i],
              LAMBDA i : i \notin handbook_rules.failed)

\* C21: the batch rule lookup calls the Rule Retriever once per generated
\* question; a question whose call raises is left out of the results and the
\* questions after it are still asked, so the results are exactly the answers
\* of the succeeding questions, in question order.
C21_BatchLookupDropsFailures ==
    handbook_rules.computed =>
        /\ rule_queries = Len(handbook_rules.queries)
        /\ Len(handbook_rules.results) = Len(Succeeding)
        /\ \A k \in 1..Len(Succeeding) :
               handbook_rules.results[k].question = handbook_rules.queries[Succeeding[k]]

C21_Witness ==
    /\ handbook_rules.computed
    /\ Len(handbook_rules.queries) >= 2
    /\ handbook_rules.failed = {1}
    /\ handbook_rules.results # <<>>
    /\ handbook_rules.results[1].question = handbook_rules.queries[2]


\* ---- the knowledge index

\* a search or a rule query of a process in which create_or_load_index has
\* not returned
QueryBeforeLoad == rag_result.op \in {"search", "query"} /\ ~rag_result.ready

\* C22: a search or rule query issued before the knowledge index has been
\* built or loaded fails with the "not initialized" error, returns no result
\* list and makes no language-model call.
C22_NotInitializedBeforeLoad ==
    QueryBeforeLoad =>
        /\ rag_result.outcome = "not initialized"
        /\ rag_result.llm_calls = 0

\* a call of create_or_load_index without documents has ended
LoadOrBuildEnded == rag_result.op = "initialize" /\ ~rag_result.call.force_reload

\* C23: create_or_load_index without documents reuses the persisted index
\* exactly when it exists and answers the probe; a missing, empty or erroring
\* index is rebuilt and persisted and does not make the call fail (the absence
\* of the handbook PDF is no fault of the index).
C23_LoadOrBuild ==
    LoadOrBuildEnded =>
        /\ rag_result.outcome = "loaded" => rag_result.call.found = "ok"
        /\ (rag_result.call.found \in {"missing", "empty", "corrupt"}
                /\ handbook_pdf = "present")
              => rag_result.outcome = "built"

\* C24: at most one build or rebuild writes the persisted store at any moment.
C24_SingleWriter == Cardinality(Writers) <= 1


\* a rule query has returned its answer
Answered == rag_result.op = "query" /\ rag_result.outcome = "answered"

\* the chunks the index ranks best for the question, for some number of
\* copies of the handbook in the collection
TopChunks(question) ==
    { SubSeq(ranked, 1, Min(5, Len(ranked))) :
        ranked \in { [i \in 1..(Len(HandbookChunks) * c) |->
                         HandbookChunks[Ranking(question)[((i - 1) \div c) + 1]]] :
                     c \in 0..(MaxCopies + 1) } }

\* C30: a rule query on an initialized index retrieves the five best chunks,
\* makes exactly one synthesis call and returns answer, sources and question;
\* sources has one entry per retrieved chunk, in retrieval order, with the
\* page, the chunk_index and the first 200 characters of that chunk, whatever
\* the answer text says.
C30_AnswerEchoesRetrievedChunks ==
    Answered =>
        /\ rag_result.docs \in TopChunks(rag_result.question)
        /\ rag_result.llm_calls = 1
        /\ rag_result.question \in Questions
        /\ rag_result.answer \in {r.text : r \in {x \in SynthesisResponses : x.kind = "text"}}
        /\ Len(rag_result.sources) = Len(rag_result.docs)
        /\ \A i \in 1..Len(rag_result.docs) :
              LET doc == rag_result.docs[i]
                  src == rag_result.sources[i]
              IN  /\ src.page = doc.page
                  /\ src.chunk_index = doc.chunk_index
                  /\ src.excerpt.page = doc.page
                  /\ src.excerpt.chunk_index = doc.chunk_index
                  /\ src.excerpt.taken = (IF doc.length < 200 THEN doc.length ELSE 200)

C30_Witness ==
    /\ Answered
    /\ rag_result.answer = "not in the context"
    /\ Len(rag_result.sources) = 5
    /\ rag_result.sources[1].page # rag_result.sources[5].page
    /\ \E i \in 1..5 : rag_result.docs[i].length > 200


\* ---- stage order and the application record

SiteRank(site) ==
    CASE site = "classification" -> 1
      [] site = "extraction" -> 2
      [] site = "decision" -> 3

\* the items the calls of one site worked on, in call order
ItemsAt(site) == [k \in 1..Len(CallsAt(site)) |-> CallsAt(site)[k].item]

ExtractionStarted == pc = "extract_loop" \/ CallsAt("extraction") # <<>>

\* C25: the stages of one application run one after the other: no step of an
\* earlier stage follows a step of a later one; when the first extraction step
\* starts the classifier has gone through every uploaded file, and when the
\* Decision Stage starts the extractor has gone through every classified
\* document.
C25_StagesSequential ==
    /\ \A i, j \in 1..Len(model_calls) :
          i < j => SiteRank(model_calls[i].site) <= SiteRank(model_calls[j].site)
    /\ ExtractionStarted =>
          /\ ItemsAt("classification") = [k \in 1..Len(uploaded_files) |-> k]
          /\ classified_documents = classified_docs
    /\ DecisionStageRan =>
          /\ ItemsAt("classification") = [k \in 1..Len(uploaded_files) |-> k]
          /\ ItemsAt("extraction") = [k \in 1..Len(classified_documents) |-> k]
          /\ extracted_data = extracted_local

C25_Witness ==
    /\ CallsAt("decision") # <<>>
    /\ Len(uploaded_files) = 2
    /\ Len(CallsAt("classification")) = 2
    /\ Len(CallsAt("extraction")) = 2


\* the classified documents whose source is the uploaded file f
ClassifiedFrom(f) ==
    {d \in 1..Len(classified_documents) : classified_documents[d].file = f}

\* the classified documents a source filename points at
ClassifiedNamed(name) ==
    {d \in 1..Len(classified_documents) : classified_documents[d].file.filename = name}

\* C26: each uploaded file is the source of at most one classified document,
\* and the source filename of each extracted record identifies exactly one
\* classified document of the application, also when two uploaded files have
\* the same filename.
C26_SourcesIdentifyOneDocument ==
    /\ \A i \in 1..Len(uploaded_files) :
          Cardinality(ClassifiedFrom(uploaded_files[i])) <= 1
    /\ \A e \in 1..Len(extracted_data) :
          Cardinality(ClassifiedNamed(extracted_data[e].source_file)) = 1


\* C27: every classified document has a category of the closed set
\* transcript, a_levels, abitur, ib, passport, cv, work_certificate,
\* apprenticeship, other, whatever document_type the model returned.
C27_CategoryInClosedSet ==
    \A d \in 1..Len(classified_documents) :
        classified_documents[d].document_type \in
            {"transcript", "a_levels", "abitur", "ib", "passport", "cv",
             "work_certificate", "apprenticeship", "other"}

InUnitInterval(q) == RatLe(Zero, q) /\ RatLe(q, One)

\* C28: the confidence of every classified document and of the admission
\* decision lies in [0,1] whatever value the model returned, and the status of
\* an admission decision is APPROVED, REJECTED, REVIEW_REQUIRED or MISSING_DOCS.
C28_ConfidencesInUnitInterval ==
    /\ \A d \in 1..Len(classified_documents) :
          InUnitInterval(classified_documents[d].confidence)
    /\ admission_decision # NoDecision =>
          /\ InUnitInterval(admission_decision.confidence)
          /\ admission_decision.status \in
                 {"APPROVED", "REJECTED", "REVIEW_REQUIRED", "MISSING_DOCS"}


\* the positions inside AdmissionDecisionAgent.process
InDecisionStage == pc \in {"check_completeness", "decision_logic"}

\* C29: the admission decision is created at most once, only by the Decision
\* Stage, and once it is set no later step changes or clears it.
C29_DecisionSetOnce ==
    [][admission_decision' # admission_decision =>
          /\ admission_decision = NoDecision
          /\ InDecisionStage
          /\ current_stage = "making_decision"]_vars

C29_Witness ==
    /\ pc = "returned"
    /\ admission_decision # NoDecision
    /\ admission_decision.status = "APPROVED"
    /\ current_stage = "decision_made"


\* a search or a rule query came back with chunks
Retrieved ==
    /\ rag_result.op \in {"search", "query"}
    /\ rag_result.outcome \in {"found", "answered"}
    /\ rag_result.docs # <<>>

\* the page numbers of a list of chunks, in order
PagesOf(docs) == [i \in 1..Len(docs) |-> docs[i].page]

\* C31: whether the index was built once or rebuilt from the same handbook,
\* the same query returns chunks that reference the same page numbers.
C31_RebuildKeepsPages ==
    Retrieved =>
        PagesOf(rag_result.docs) = PagesOf(similarity_search(1, rag_result.question, TopK))


\* ---- the Decision Stage's profile and questions

SecondaryTypes == {"a_levels", "abitur", "ib"}

\* the extracted records of secondary-education certificates
SecondaryRecords ==
    SelectSeq(extracted_data, LAMBDA x : x.document_type \in SecondaryTypes)

\* how many of the generated questions satisfy Test
CountQueries(Test(_)) == Len(SelectSeq(handbook_rules.queries, Test))

CountRecords(Test(_)) == Len(SelectSeq(extracted_data, Test))

\* the parts of the question set that do not depend on the grade
QuestionsWithoutGrade ==
    /\ CountQueries(LAMBDA q : q.kind = "requirements") = 1
    /\ \A t \in SecondaryTypes :
          CountQueries(LAMBDA q : q.kind = "recognition" /\ q.subtype = t)
              = CountRecords(LAMBDA x : x.document_type = t)
    /\ CountQueries(LAMBDA q : q.kind = "work_experience")
          = (IF CountRecords(LAMBDA x : x.document_type = "work_certificate") > 0
             THEN 1 ELSE 0)
    /\ \A i \in 1..Len(handbook_rules.queries) :
          handbook_rules.queries[i].kind \in
              {"requirements", "recognition", "minimum_grade", "work_experience"}
    /\ Len(handbook_rules.queries) >= 1
    /\ Len(handbook_rules.queries) <= 2 + 2 * Len(SecondaryRecords)

\* C32 as stated: one requirements question, one recognition question per
\* secondary-education record, a minimum-grade question for exactly those of
\* them for which a grade was extracted, and a work-experience question if and
\* only if there is work experience; between 1 and 2 + 2*S questions.
C32_QuestionsForExtractedGrades ==
    handbook_rules.computed =>
        /\ QuestionsWithoutGrade
        /\ \A t \in SecondaryTypes :
              CountQueries(LAMBDA q : q.kind = "minimum_grade" /\ q.subtype = t)
                  = CountRecords(LAMBDA x : x.document_type = t
                                            /\ "overall_grade" \in x.data.nonnull)

\* C32 amended: the minimum-grade question is asked for exactly the
\* secondary-education records whose data has an overall_grade key, with a
\* value or with null.
C32_QuestionsForGradeKeys ==
    handbook_rules.computed =>
        /\ QuestionsWithoutGrade
        /\ \A t \in SecondaryTypes :
              CountQueries(LAMBDA q : q.kind = "minimum_grade" /\ q.subtype = t)
                  = CountRecords(LAMBDA x : x.document_type = t
                                            /\ "overall_grade" \in x.data.keys)

C32_Witness ==
    /\ handbook_rules.computed
    /\ CountQueries(LAMBDA q : q.kind = "minimum_grade") = 1
    /\ CountRecords(LAMBDA x : x.document_type = "abitur"
                              /\ "overall_grade" \in x.data.keys \ x.data.nonnull) = 1
    /\ Len(handbook_rules.queries) = 3


\* the profile _evaluate_admission builds from the extracted records
Profile == build_applicant_profile(target_program, entity, extracted_data)

\* the entry is a grouped record of an extracted record of one of the types
\* and carries that record's data and confidence
GroupedFrom(entry, types) ==
    /\ {"data", "confidence"} \subseteq DOMAIN entry
    /\ \E i \in 1..Len(extracted_data) :
          /\ extracted_data[i].document_type \in types
          /\ entry.data = extracted_data[i].data
          /\ entry.confidence = extracted_data[i].confidence

\* C33: the profile groups the extracted records by category: transcripts as
\* university qualifications, a_levels/abitur/ib as secondary-education
\* qualifications with their subtype, work certificates as work-experience
\* entries, and every grouped record keeps the confidence of its extraction.
C33_ProfileKeepsConfidence ==
    handbook_rules.computed =>
        /\ Len(Profile.qualifications)
              = CountRecords(LAMBDA x : x.document_type \in SecondaryTypes \cup {"transcript"})
        /\ \A k \in 1..Len(Profile.qualifications) :
              LET q == Profile.qualifications[k]
              IN  IF q.type = "university_degree"
                  THEN GroupedFrom(q, {"transcript"})
                  ELSE q.type = "secondary_education" /\ GroupedFrom(q, {q.subtype})
        /\ Len(Profile.work_experience)
              = CountRecords(LAMBDA x : x.document_type = "work_certificate")
        /\ \A k \in 1..Len(Profile.work_experience) :
              GroupedFrom(Profile.work_experience[k], {"work_certificate"})


\* ---- the handbook loader

\* positions of the chunks cut from one page
ChunksOfPage(page) == {j \in 1..Len(chunks) : chunks[j].page = page}

\* C34: every chunk that chunk_documents returns carries the source and the
\* page of the page it was cut from; the chunks of a page have chunk_total
\* equal to their number and the chunk_index values 0..chunk_total-1, each
\* once; and the step that returns the chunks changes nothing else.
C34_ChunksKeepPageMetadata ==
    /\ [](\A i \in 1..Len(chunks) :
            LET c == chunks[i]
            IN  /\ c.source = HandbookPath
                /\ c.page \in 1..Len(pdf_pages)
                /\ pdf_pages[c.page] > 0
                /\ c.length <= pdf_pages[c.page]
                /\ c.chunk_total = Cardinality(ChunksOfPage(c.page))
                /\ {chunks[j].chunk_index : j \in ChunksOfPage(c.page)}
                       = 0..(c.chunk_total - 1))
    /\ [][chunks' # chunks =>
             UNCHANGED <<noLoaderVars, pdf_pages, documents>>]_vars

C34_Witness ==
    /\ loader_pc = "returned"
    /\ \E i \in 1..Len(chunks) : chunks[i].chunk_total = 3 /\ chunks[i].chunk_index = 2
    /\ \E i \in 1..Len(chunks) : chunks[i].chunk_total = 1 /\ chunks[i].page = 3
    /\ \E p \in 1..Len(pdf_pages) : pdf_pages[p] = 0


\* ---- termination

\* C35: processing always terminates: process_application eventually returns
\* in one of the terminal states decision_made, error_handled, workflow_error,
\* whatever the files and the outcomes of the collaborator calls, and a run
\* that has entered the Decision Stage returns from it without a further gate.
C35_ReturnsInTerminalStage ==
    /\ <>(Returned /\ current_stage \in TerminalStages)
    /\ [](InDecisionStage => <>Returned)


\* ---- what each stage writes

InClassificationStage == pc \in {"classify_documents", "classify_loop"}
InExtractionStage == pc \in {"extract_data", "extract_loop"}
InDecisionNode == pc \in {"make_decision", "check_completeness", "decision_logic"}

\* the step is a step of a node, not the graph runtime giving up
NodeStep == current_stage' # "workflow_error"

\* C36: each stage writes only its own output besides current_stage,
\* error_message and the audit log: the classification steps leave
\* extracted_data and admission_decision alone, the extraction steps leave
\* classified_documents and admission_decision alone, the decision steps and
\* the error node leave the lists of the earlier stages alone, and no step
\* after the start changes application_id, applicant_id, target_program,
\* entity or uploaded_files.
C36_StagesWriteOwnOutput ==
    [][/\ pc # "idle" => UNCHANGED inputVars
       /\ (InClassificationStage /\ NodeStep) =>
              UNCHANGED <<extracted_data, admission_decision>>
       /\ (InExtractionStage /\ NodeStep) =>
              UNCHANGED <<classified_documents, admission_decision>>
       /\ (InDecisionNode /\ NodeStep) =>
              UNCHANGED <<classified_documents, extracted_data>>
       /\ (pc = "handle_error" /\ NodeStep) => UNCHANGED outputVars]_vars

C36_Witness ==
    /\ Returned
    /\ current_stage = "decision_made"
    /\ Len(classified_documents) = 2
    /\ Len(extracted_data) = 1
    /\ admission_decision.status = "REJECTED"


\* ---- documents classified with low confidence

\* the categories of the documents classified with a confidence above 0.5
ConfidentTypes ==
    {classified_documents[i].document_type :
        i \in {j \in 1..Len(classified_documents) :
                 RatGt(classified_documents[j].confidence, Rat(1, 2))}}

\* the Decision Stage took its MISSING_DOCS branch
MissingDocsBranchTaken ==
    /\ admission_decision # NoDecision
    /\ admission_decision.status = "MISSING_DOCS"
    /\ rule_queries = 0 /\ decision_calls = 0

\* C37: the classification gate asks for one document above 0.5 only: once
\* extraction has run, every classified document has been handed to it, those
\* at or below 0.5 included, and the completeness check of the Decision Stage
\* counts the category of every classified document as provided.
C37_LowConfidenceDocumentsCount ==
    /\ current_stage \in {"extracting_data", "data_extracted", "making_decision",
                          "decision_made", "error"} => SomeConfidentClassification
    /\ current_stage \in {"data_extracted", "making_decision", "decision_made", "error"} =>
          ItemsAt("extraction") = [k \in 1..Len(classified_documents) |-> k]
    /\ current_stage \in {"decision_made", "error"} =>
          (MissingDocsBranchTaken <=> ~(Range(required_docs(entity)) \subseteq ProvidedTypes))

C37_Witness ==
    /\ Returned
    /\ current_stage = "decision_made"
    /\ entity = "DE"
    /\ ~(Range(required_docs(entity)) \subseteq ConfidentTypes)
    /\ decision_calls = 1
    /\ admission_decision.status = "APPROVED"
    /\ \E d \in 1..Len(classified_documents) :
          /\ classified_documents[d].document_type = "abitur"
          /\ RatLe(classified_documents[d].confidence, Rat(1, 2))
          /\ \E c \in 1..Len(model_calls) :
                model_calls[c].site = "extraction" /\ model_calls[c].item = d


\* ---- a load that raised

\* the last operation was a create_or_load_index without documents that found
\* a persisted directory, could not use it, failed to rebuild and raised, in a
\* process in which no load or build has succeeded
FailedLoad ==
    /\ rag_result.op = "initialize"
    /\ ~rag_result.call.force_reload
    /\ rag_result.call.found \in {"corrupt", "empty"}
    /\ rag_result.outcome \in {"FileNotFoundError", "ChromaError"}
    /\ ~rag_ready[1]

\* C38: after create_or_load_index has raised, the store is uninitialized: the
\* next search or rule query fails with the "not initialized" error.
C38_StoreUninitializedAfterFailedLoad ==
    [][(FailedLoad /\ rag_result'.op \in {"search", "query"}) =>
           rag_result'.outcome = "not initialized"]_vars


\* ---- entities without a required-documents entry

UnknownEntity == entity \notin {"DE", "UK", "CA"}

\* the Decision Stage has ended for an entity without an entry
DecidedForUnknownEntity ==
    UnknownEntity /\ Returned /\ current_stage \in {"decision_made", "error"}

\* C39 as stated: for an entity that is not in the required-documents table
\* the Decision Stage never returns MISSING_DOCS and always goes on to rule
\* retrieval and decision synthesis.
C39_NeverMissingDocsForUnknownEntity ==
    DecidedForUnknownEntity =>
        /\ admission_decision.status # "MISSING_DOCS"
        /\ rule_queries >= 1
        /\ decision_calls = 1

\* C39 amended: for such an entity the completeness check finds nothing
\* missing, the MISSING_DOCS branch is not taken, and the Decision Stage makes
\* its rule queries and one decision-synthesis call; a decision it stores has
\* an empty missing_documents list unless the model's answer says otherwise.
C39_NoMissingDocsBranchForUnknownEntity ==
    /\ UnknownEntity =>
          check_document_completeness(entity, classified_documents) = <<>>
    /\ DecidedForUnknownEntity =>
          /\ ~MissingDocsBranchTaken
          /\ rule_queries >= 1
          /\ decision_calls = 1
          /\ Len(CallsAt("decision")) = 1
          /\ admission_decision # NoDecision =>
                admission_decision = apply_decision_logic(CallsAt("decision")[1].response)

C39_Witness ==
    /\ DecidedForUnknownEntity
    /\ current_stage = "decision_made"
    /\ admission_decision.status = "MISSING_DOCS"
    /\ "transcript" \notin ProvidedTypes
    /\ decision_calls = 1

====
